---- MODULE Spec2Model ----
(***************************************************************************)
(* Model of src/utils/services/vanityAddress.tsx: the VanityAddressGenerator *)
(* (the coordinator, running on the page's event loop) and the VanityWorker *)
(* script it starts in Web Workers.                                         *)
(*                                                                         *)
(* Strings are sequences of one-character strings.  An optional property   *)
(* of an object literal is None (absent) or Some(v).                        *)
(***************************************************************************)
EXTENDS Integers, Sequences, FiniteSets, TLC

VARIABLES
    argConfig,      \* the object passed to the constructor
    hwConcurrency,  \* navigator.hardwareConcurrency (0: undefined)
    ctor,           \* "new" (not yet constructed), "ok", "threw"
    ctorError,      \* message of the Error the constructor threw, or ""
    config,         \* this.config
    totalAttempts,  \* this.totalAttempts
    startTime,      \* this.startTime
    isRunning,      \* this.isRunning
    workers,        \* this.workers: sequence of worker handles
    callback,       \* this.onProgress is set
    now,            \* Date.now(), ms since the page was loaded
    calls,          \* number of generate() calls made so far
    promise,        \* promise[c]: state of the promise returned by call c
    result,         \* result[c]: value call c resolved with
    lastProgressUpdate, \* the closure variable of call c (line 100)
    worker,         \* worker[w]: the VanityWorker of handle w
    channel,        \* channel[w]: events posted by w, not yet dispatched
    notifs,         \* history: the calls of this.onProgress, in order
    successes,      \* history: the success messages dispatched to call c's handler
    startedAt,      \* history: the time of call c
    late,           \* history: progress messages dispatched while not running
    acted,          \* history: number of times call c's success branch ran
    received,       \* history: sum of the progress messages dispatched while running
    stopCalls,      \* history: number of stops requested by the caller
    probe           \* the last matchesPattern call made on its own: argument, value

vars == <<argConfig, hwConcurrency, ctor, ctorError, config, totalAttempts,
          startTime, isRunning, workers, callback, now, calls, promise, result,
          lastProgressUpdate, worker, channel, notifs, successes, startedAt, late, acted,
          received, stopCalls, probe>>

-----------------------------------------------------------------------------
(* Bounds of the model *)

MaxCalls == 2        \* generate() calls on one instance
MaxBatches == 2      \* report batches the workers of an instance run, in all
MaxThreads == 2      \* largest thread count of a session that is explored
MaxClock == 2000     \* the clock stops advancing here
MaxStops == 2        \* stops the caller requests

(* Program constants *)

progressInterval == 1000
reportInterval == 10000
DefaultThreads == 4

-----------------------------------------------------------------------------
(* Optional values and JavaScript truthiness *)

None == <<>>
Some(v) == <<v>>
IsSet(o) == o # None
Val(o) == o[1]

\* truthiness of an optional string: undefined and "" are falsy
TruthyStr(o) == IsSet(o) /\ Val(o) # <<>>
\* truthiness of an optional number: undefined and 0 are falsy
TruthyNum(o) == IsSet(o) /\ Val(o) # 0

-----------------------------------------------------------------------------
(* Characters *)

Uppers == <<"A","B","C","D","E","F","G","H","I","J","K","L","M",
            "N","O","P","Q","R","S","T","U","V","W","X","Y","Z">>
Lowers == <<"a","b","c","d","e","f","g","h","i","j","k","l","m",
            "n","o","p","q","r","s","t","u","v","w","x","y","z">>
Digits == <<"0","1","2","3","4","5","6","7","8","9">>

Range(s) == {s[i] : i \in DOMAIN s}

\* the character class [1-9A-HJ-NP-Za-km-z]
Base58Chars ==
    (Range(Digits) \ {"0"}) \cup (Range(Uppers) \ {"I", "O"}) \cup (Range(Lowers) \ {"l"})

\* faulty variant: the regular expression without its anchors
base58RegexUnanchored(s) == \E i \in 1..Len(s) : s[i] \in Base58Chars
\* /^[1-9A-HJ-NP-Za-km-z]+$/.test(s)
base58Regex(s) == Len(s) >= 1 /\ \A i \in 1..Len(s) : s[i] \in Base58Chars

\* String.prototype.toLowerCase on one character, then on a string
LowerChar(ch) ==
    IF \E i \in 1..Len(Uppers) : Uppers[i] = ch
    THEN Lowers[CHOOSE i \in 1..Len(Uppers) : Uppers[i] = ch]
    ELSE ch
toLowerCase(s) == [i \in 1..Len(s) |-> LowerChar(s[i])]

startsWith(s, p) == Len(p) <= Len(s) /\ SubSeq(s, 1, Len(p)) = p
endsWith(s, p) == Len(p) <= Len(s) /\ SubSeq(s, Len(s) - Len(p) + 1, Len(s)) = p

-----------------------------------------------------------------------------
(* The constructor *)

ErrNoPattern == "At least one pattern (prefix or suffix) must be specified"
ErrPrefix == "Prefix contains invalid characters for base58"
ErrSuffix == "Suffix contains invalid characters for base58"
ErrThreads == "Thread count must be between 1 and maxThreads * 2"

\* navigator.hardwareConcurrency || 4
maxThreads(hw) == IF hw # 0 THEN hw ELSE DefaultThreads

\* config.threads && (config.threads < 1 || config.threads > maxThreads * 2)
ThreadsRejected(threads, hw) ==
    TruthyNum(threads) /\ (Val(threads) < 1 \/ Val(threads) > maxThreads(hw) * 2)

\* validateConfig: the message of the Error it throws, "" when it returns
validateConfig(cfg, hw) ==
    IF ~TruthyStr(cfg.prefix) /\ ~TruthyStr(cfg.suffix) THEN ErrNoPattern
    ELSE IF TruthyStr(cfg.prefix) /\ ~base58Regex(Val(cfg.prefix)) THEN ErrPrefix
    ELSE IF TruthyStr(cfg.suffix) /\ ~base58Regex(Val(cfg.suffix)) THEN ErrSuffix
    ELSE IF ThreadsRejected(cfg.threads, hw) THEN ErrThreads
    ELSE ""

\* faulty variant: only an absent count is replaced (?? in place of ||)
defaultedThreadsKeepsZero(threads, hw) ==
    IF IsSet(threads) THEN Val(threads) ELSE maxThreads(hw)

\* config.threads || navigator.hardwareConcurrency || 4
defaultedThreads(threads, hw) ==
    IF TruthyNum(threads) THEN Val(threads) ELSE maxThreads(hw)

NoConfig == [prefix |-> None, suffix |-> None, caseInsensitive |-> FALSE,
             maxAttempts |-> None, threads |-> None]

Construct ==
    /\ ctor = "new"
    /\ LET err == validateConfig(argConfig, hwConcurrency) IN
       IF err # ""
       THEN /\ ctor' = "threw"
            /\ ctorError' = err
            /\ config' = config
       ELSE /\ ctor' = "ok"
            /\ ctorError' = ""
            /\ config' = [argConfig EXCEPT
                   !.threads = Some(defaultedThreads(argConfig.threads, hwConcurrency))]
    /\ UNCHANGED <<probe, argConfig, hwConcurrency, totalAttempts, startTime, isRunning,
                   workers, callback, now, calls, promise, result,
                   lastProgressUpdate, worker, channel, notifs, successes, startedAt, late,
                   acted, received, stopCalls>>

-----------------------------------------------------------------------------
(* The worker script (WORKER_CODE) *)

\* addresses Keypair.generate().publicKey.toBase58() can return (a sample)
Addresses == { <<"A","b">>, <<"a","b">>, <<"b","A">> }

\* positions in a batch at which a match is explored: the middle of the batch
MatchIndices == {(reportInterval \div 2) - 1}

\* faulty variant: only the address is lower-cased
matchesPatternFoldsAddressOnly(address, cfg) ==
    LET prefix == cfg.prefix
        suffix == cfg.suffix
        targetAddress == IF cfg.caseInsensitive THEN toLowerCase(address) ELSE address
        prefixMatch == IF ~TruthyStr(prefix) THEN TRUE
                       ELSE startsWith(targetAddress, Val(prefix))
        suffixMatch == IF ~TruthyStr(suffix) THEN TRUE
                       ELSE endsWith(targetAddress, Val(suffix))
    IN prefixMatch /\ suffixMatch

\* VanityWorker.matchesPattern
matchesPattern(address, cfg) ==
    LET prefix == cfg.prefix
        suffix == cfg.suffix
        caseInsensitive == cfg.caseInsensitive
        targetAddress == IF caseInsensitive THEN toLowerCase(address) ELSE address
        targetPrefix == IF caseInsensitive /\ TruthyStr(prefix)
                        THEN Some(toLowerCase(Val(prefix))) ELSE prefix
        targetSuffix == IF caseInsensitive /\ TruthyStr(suffix)
                        THEN Some(toLowerCase(Val(suffix))) ELSE suffix
        prefixMatch == IF ~TruthyStr(prefix) THEN TRUE
                       ELSE startsWith(targetAddress, Val(targetPrefix))
        suffixMatch == IF ~TruthyStr(suffix) THEN TRUE
                       ELSE endsWith(targetAddress, Val(targetSuffix))
    IN prefixMatch /\ suffixMatch

\* the keypair of an address: its secret key determines the public key
secretKeyOf(address) == [pub |-> address]
\* Keypair.fromSecretKey
fromSecretKey(sk) == [publicKey |-> sk.pub, secretKey |-> sk]

SuccessMessage(address, attempts) ==
    [type |-> "success", address |-> address,
     privateKey |-> secretKeyOf(address), attempts |-> attempts]
ProgressMessage(attempts) ==
    [type |-> "progress", address |-> <<>>,
     privateKey |-> secretKeyOf(<<>>), attempts |-> attempts]
ErrorEvent ==
    [type |-> "error", address |-> <<>>,
     privateKey |-> secretKeyOf(<<>>), attempts |-> 0]

\* faulty variant: every worker gets the identity 0
newWorkerSameId(c, i, cfg) ==
    [call |-> c, workerId |-> 0, config |-> cfg, status |-> "loading",
     attempts |-> 0, address |-> <<>>,
     reported |-> 0, successPosts |-> 0, lastPost |-> ""]
\* the VanityWorker that postMessage({ config, workerId: i }) of call c starts
\* (constructor, lines 180-185).  History: address is the address it matched,
\* reported the sum of the deltas it posted, successPosts the number of
\* success messages it posted, lastPost the type of its last message
newWorker(c, i, cfg) ==
    [call |-> c, workerId |-> i, config |-> cfg, status |-> "loading",
     attempts |-> 0, address |-> <<>>,
     reported |-> 0, successPosts |-> 0, lastPost |-> ""]

\* faulty variant: the progress message carries the cumulative count
progressDeltaCumulative(attempts) == attempts
\* the attempts field of the progress message posted when this.attempts has
\* become attempts (line 228)
progressDelta(attempts) == reportInterval

NoProbe == [address |-> <<>>, matched |-> FALSE, made |-> FALSE]

Handles == DOMAIN worker
Live(w) == worker[w].status \in {"loading", "searching", "succeeded"}

\* number of batches the workers have completed so far, in all
RECURSIVE SumAttempts(_)
SumAttempts(hs) ==
    IF hs = {} THEN 0
    ELSE LET w == CHOOSE x \in hs : TRUE
         IN worker[w].attempts + SumAttempts(hs \ {w})
BatchesRun == SumAttempts(Handles) \div reportInterval

\* faulty variant: the ceiling has to be exceeded
maxAttemptsReachedStrict(cfg, attempts) ==
    IF TruthyNum(cfg.maxAttempts) THEN attempts > Val(cfg.maxAttempts) ELSE FALSE

\* this.config.maxAttempts && this.attempts >= this.config.maxAttempts
maxAttemptsReached(cfg, attempts) ==
    TruthyNum(cfg.maxAttempts) /\ attempts >= Val(cfg.maxAttempts)

sessionVars == <<argConfig, hwConcurrency, ctor, ctorError, config, totalAttempts,
                 startTime, isRunning, workers, callback, now, calls, promise,
                 result, lastProgressUpdate, notifs, successes, startedAt, late, acted,
                 received, stopCalls, probe>>

\* the worker script is evaluated (importScripts) and self.onmessage gets
\* { config, workerId }: search() starts
WorkerStart(w) ==
    /\ worker[w].status = "loading"
    /\ worker' = [worker EXCEPT ![w].status = "searching"]
    /\ UNCHANGED channel
    /\ UNCHANGED sessionVars

\* the worker script fails while it is evaluated (importScripts throws): the
\* uncaught exception is reported to the Worker object as an error event
WorkerLoadError(w) ==
    /\ worker[w].status = "loading"
    /\ worker' = [worker EXCEPT ![w].status = "failed"]
    /\ channel' = [channel EXCEPT ![w] = Append(@, ErrorEvent)]
    /\ UNCHANGED sessionVars

\* faulty variant: search() posts the success and goes on searching
SearchMatchNoReturn(w) ==
    /\ worker[w].status = "searching"
    /\ \E address \in Addresses, i \in MatchIndices :
          /\ matchesPattern(address, worker[w].config)
          /\ channel' = [channel EXCEPT
                 ![w] = Append(@, SuccessMessage(address, worker[w].attempts + i + 1))]
          /\ worker' = [worker EXCEPT ![w].address = address,
                                       ![w].successPosts = @ + 1,
                                       ![w].lastPost = "success"]
    /\ UNCHANGED sessionVars

\* search(): a candidate of the batch matches at index i (the i before it did not)
SearchMatch(w) ==
    /\ worker[w].status = "searching"
    /\ \E address \in Addresses, i \in MatchIndices :
          /\ matchesPattern(address, worker[w].config)
          /\ i > 0 => \E other \in Addresses : ~matchesPattern(other, worker[w].config)
          /\ channel' = [channel EXCEPT
                 ![w] = Append(@, SuccessMessage(address, worker[w].attempts + i + 1))]
          /\ worker' = [worker EXCEPT ![w].status = "succeeded", ![w].address = address,
                                       ![w].successPosts = @ + 1,
                                       ![w].lastPost = "success"]
    /\ UNCHANGED sessionVars

\* search(): no candidate of the batch matches; the batch is reported, and the
\* attempt ceiling is tested
SearchBatch(w) ==
    /\ worker[w].status = "searching"
    /\ BatchesRun < MaxBatches
    /\ \E other \in Addresses : ~matchesPattern(other, worker[w].config)
    /\ LET attempts == worker[w].attempts + reportInterval
           msg == ProgressMessage(progressDelta(attempts))
       IN
       /\ channel' = [channel EXCEPT ![w] = Append(@, msg)]
       /\ worker' = [worker EXCEPT
              ![w].attempts = attempts,
              ![w].reported = @ + msg.attempts,
              ![w].lastPost = "progress",
              ![w].status = IF maxAttemptsReached(worker[w].config, attempts)
                            THEN "closed" ELSE "searching"]
    /\ UNCHANGED sessionVars

-----------------------------------------------------------------------------
(* The coordinator: generate(), its handlers, stopWorkers *)

NoResult == [publicKey |-> <<>>, privateKey |-> fromSecretKey(secretKeyOf(<<>>)),
             attempts |-> 0, duration |-> 0]

\* faulty variant: the handles are dropped, the workers are not terminated
stopWorkersWithoutTerminate(inst) ==
    [isRunning |-> FALSE, workers |-> <<>>, worker |-> inst.worker]
\* faulty variant: isRunning is left as it was
stopWorkersKeepsRunning(inst) ==
    [isRunning |-> inst.isRunning,
     workers |-> <<>>,
     worker |-> [w \in DOMAIN inst.worker |->
                    IF w \in Range(inst.workers)
                    THEN [inst.worker[w] EXCEPT !.status = "terminated"]
                    ELSE inst.worker[w]]]
\* faulty variant: isRunning is toggled
stopWorkersToggles(inst) ==
    [isRunning |-> ~inst.isRunning,
     workers |-> <<>>,
     worker |-> [w \in DOMAIN inst.worker |->
                    IF w \in Range(inst.workers)
                    THEN [inst.worker[w] EXCEPT !.status = "terminated"]
                    ELSE inst.worker[w]]]
\* stopWorkers, on the fields it touches: inst = [isRunning, workers, worker]
stopWorkers(inst) ==
    [isRunning |-> FALSE,
     workers |-> <<>>,
     worker |-> [w \in DOMAIN inst.worker |->
                    IF w \in Range(inst.workers)
                    THEN [inst.worker[w] EXCEPT !.status = "terminated"]
                    ELSE inst.worker[w]]]

Instance == [isRunning |-> isRunning, workers |-> workers, worker |-> worker]

\* resolve / reject: a promise settles once, later calls are no-ops
settle(state, outcome) == IF state = "pending" THEN outcome ELSE state
settledValue(state, old, new) == IF state = "pending" THEN new ELSE old

\* faulty variant: the handler has no isRunning test
handlerNeverReturnsEarly(running) == FALSE
\* worker.onmessage, line 125: if (!this.isRunning) return
handlerReturnsEarly(running) == ~running

\* faulty variant: = in place of +=
addAttemptsOverwrite(total, attempts) == attempts
\* onProgress, line 106
addAttempts(total, attempts) == total + attempts

\* faulty variant: the time of the last notification is not subtracted
notificationDueSinceStart(t, last) == t >= progressInterval
\* onProgress, line 109
notificationDue(t, last) == t - last >= progressInterval

\* Math.floor(this.totalAttempts / (elapsed / 1000)); a division by zero gives
\* Infinity, 0 / 0 gives NaN
rateOf(total, elapsed) ==
    IF elapsed = 0
    THEN [kind |-> IF total = 0 THEN "NaN" ELSE "Infinity", value |-> 0]
    ELSE [kind |-> "finite", value |-> (total * 1000) \div elapsed]

\* faulty variant: the count of the success message is added to the total
resolvedValueCountsWinner(msg, total, duration) ==
    [publicKey |-> msg.address, privateKey |-> fromSecretKey(msg.privateKey),
     attempts |-> total + msg.attempts, duration |-> duration]
\* faulty variant: the address is reported lower-cased
resolvedValueFolded(msg, total, duration) ==
    [publicKey |-> toLowerCase(msg.address), privateKey |-> fromSecretKey(msg.privateKey),
     attempts |-> total, duration |-> duration]
\* the object generate() resolves with (lines 135-140)
resolvedValue(msg, total, duration) ==
    [publicKey |-> msg.address, privateKey |-> fromSecretKey(msg.privateKey),
     attempts |-> total, duration |-> duration]

\* generate(): the executor of the returned promise (lines 90-157)
DoGenerate ==
    /\ ctor = "ok"
    /\ LET c == calls + 1
           n == Val(config.threads)
           spawned == [i \in 1..n |-> <<c, i - 1>>]
       IN
       /\ calls' = c
       /\ startTime' = now
       /\ isRunning' = TRUE
       /\ totalAttempts' = 0
       /\ lastProgressUpdate' = Append(lastProgressUpdate, now)
       /\ promise' = Append(promise, "pending")
       /\ result' = Append(result, NoResult)
       /\ worker' = [w \in DOMAIN worker \cup Range(spawned) |->
                        IF w \in DOMAIN worker THEN worker[w]
                        ELSE newWorker(c, w[2], config)]
       /\ channel' = [w \in DOMAIN channel \cup Range(spawned) |->
                        IF w \in DOMAIN channel THEN channel[w] ELSE <<>>]
       /\ workers' = workers \o spawned
       /\ successes' = Append(successes, <<>>)
       /\ startedAt' = Append(startedAt, now)
       /\ late' = late
       /\ acted' = Append(acted, 0)
       /\ received' = 0
    /\ UNCHANGED <<probe, argConfig, hwConcurrency, ctor, ctorError, config, callback,
                   now, notifs, stopCalls>>

\* the first generate() on the instance
Generate ==
    /\ calls = 0
    /\ DoGenerate

\* generate() on an instance that was used before (the earlier call may be
\* pending or settled)
GenerateAgain ==
    /\ calls >= 1
    /\ calls < MaxCalls
    /\ DoGenerate

\* setProgressCallback
SetProgressCallback ==
    /\ ctor = "ok"
    /\ ~callback
    /\ callback' = TRUE
    /\ UNCHANGED <<probe, argConfig, hwConcurrency, ctor, ctorError, config, totalAttempts,
                   startTime, isRunning, workers, now, calls, promise, result,
                   lastProgressUpdate, worker, channel, notifs, successes, startedAt, late,
                   acted, received, stopCalls>>

\* worker.onmessage of handle w, on the oldest undispatched message of w
OnMessage(w) ==
    /\ channel[w] # <<>>
    /\ Head(channel[w]).type # "error"
    /\ LET msg == Head(channel[w])
           c == worker[w].call
       IN
       /\ channel' = [channel EXCEPT ![w] = Tail(@)]
       /\ successes' =
              IF msg.type = "success"
              THEN [successes EXCEPT ![c] = Append(@, msg)] ELSE successes
       /\ late' = IF msg.type = "progress" /\ ~isRunning THEN late + 1 ELSE late
       /\ UNCHANGED startedAt
       /\ received' =
              IF msg.type = "progress" /\ isRunning
              THEN received + msg.attempts ELSE received
       /\ IF handlerReturnsEarly(isRunning)
          THEN UNCHANGED <<totalAttempts, isRunning, workers, worker, promise,
                           result, lastProgressUpdate, notifs, acted>>
          ELSE IF msg.type = "progress"
          THEN \* onProgress (lines 103-119); its own isRunning test has passed
               LET total == addAttempts(totalAttempts, msg.attempts)
                   due == notificationDue(now, lastProgressUpdate[c])
                   elapsed == now - startTime
               IN
               /\ totalAttempts' = total
               /\ notifs' =
                      IF due /\ callback
                      THEN Append(notifs, [call |-> c, at |-> now, attempts |-> total,
                                           rate |-> rateOf(total, elapsed),
                                           elapsed |-> elapsed])
                      ELSE notifs
               /\ lastProgressUpdate' =
                      IF due THEN [lastProgressUpdate EXCEPT ![c] = now]
                      ELSE lastProgressUpdate
               /\ UNCHANGED <<isRunning, workers, worker, promise, result, acted>>
          ELSE \* success (lines 129-141)
               LET stopped == stopWorkers(Instance) IN
               /\ isRunning' = stopped.isRunning
               /\ workers' = stopped.workers
               /\ worker' = stopped.worker
               /\ acted' = [acted EXCEPT ![c] = @ + 1]
               /\ promise' = [promise EXCEPT ![c] = settle(@, "resolved")]
               /\ result' = [result EXCEPT
                      ![c] = settledValue(promise[c], @,
                                 resolvedValue(msg, totalAttempts, now - startTime))]
               /\ UNCHANGED <<totalAttempts, lastProgressUpdate, notifs>>
    /\ UNCHANGED <<probe, argConfig, hwConcurrency, ctor, ctorError, config, startTime,
                   callback, now, calls, stopCalls>>

\* worker.onerror of handle w (lines 144-149)
\* an onerror that drops the failed worker and lets the others search on
OnErrorContinues(w) ==
    /\ channel[w] # <<>>
    /\ Head(channel[w]).type = "error"
    /\ channel' = [channel EXCEPT ![w] = Tail(@)]
    /\ UNCHANGED <<isRunning, workers, worker, promise>>
    /\ UNCHANGED <<probe, argConfig, hwConcurrency, ctor, ctorError, config, totalAttempts,
                   startTime, callback, now, calls, result, lastProgressUpdate,
                   notifs, successes, startedAt, late, acted, received, stopCalls>>

\* worker.onerror = (error) => { ...; this.stopWorkers(); reject(error) }
OnError(w) ==
    /\ channel[w] # <<>>
    /\ Head(channel[w]).type = "error"
    /\ LET c == worker[w].call
           stopped == stopWorkers(Instance)
       IN
       /\ channel' = [channel EXCEPT ![w] = Tail(@)]
       /\ isRunning' = stopped.isRunning
       /\ workers' = stopped.workers
       /\ worker' = stopped.worker
       /\ promise' = [promise EXCEPT ![c] = settle(@, "rejected: ErrorEvent")]
    /\ UNCHANGED <<probe, argConfig, hwConcurrency, ctor, ctorError, config, totalAttempts,
                   startTime, callback, now, calls, result, lastProgressUpdate,
                   notifs, successes, startedAt, late, acted, received, stopCalls>>

\* worker.terminate() empties the queue of events the worker has posted; an
\* event that was already queued on the page's event loop is still dispatched
\* (OnMessage, OnError): both outcomes are possible for an undispatched event
DiscardAfterTerminate(w) ==
    /\ worker[w].status = "terminated"
    /\ channel[w] # <<>>
    /\ channel' = [channel EXCEPT ![w] = <<>>]
    /\ UNCHANGED worker
    /\ UNCHANGED sessionVars

\* the caller forces the generator to stop (usage note, lines 41-42): the only
\* stop routine of the class is stopWorkers
Stop ==
    /\ ctor = "ok"
    /\ calls >= 1
    /\ stopCalls < MaxStops
    /\ LET stopped == stopWorkers(Instance) IN
       /\ isRunning' = stopped.isRunning
       /\ workers' = stopped.workers
       /\ worker' = stopped.worker
    /\ stopCalls' = stopCalls + 1
    /\ UNCHANGED <<probe, argConfig, hwConcurrency, ctor, ctorError, config, totalAttempts,
                   startTime, callback, now, calls, promise, result,
                   lastProgressUpdate, channel, notifs, successes, startedAt, late, acted,
                   received>>

\* time passes
TickSteps == {500, 1000}
Tick ==
    /\ \E d \in TickSteps :
          /\ now + d <= MaxClock
          /\ now' = now + d
    /\ UNCHANGED <<probe, argConfig, hwConcurrency, ctor, ctorError, config, totalAttempts,
                   startTime, isRunning, workers, callback, calls, promise, result,
                   lastProgressUpdate, worker, channel, notifs, successes, startedAt, late,
                   acted, received, stopCalls>>

-----------------------------------------------------------------------------
(* Inputs and specifications *)

Patterns == { None, Some(<<>>), Some(<<"A">>), Some(<<"a">>), Some(<<"b">>),
              Some(<<"A","b">>), Some(<<"0">>), Some(<<"O">>), Some(<<"I">>),
              Some(<<"l">>), Some(<<"A","0">>), Some(<<"-">>) }

ThreadInputs == {None} \cup {Some(n) : n \in -1 .. (2 * DefaultThreads + 1)}

ConfigInputs ==
    [prefix : Patterns, suffix : Patterns, caseInsensitive : BOOLEAN,
     maxAttempts : {None}, threads : ThreadInputs]

SessionPatterns ==
    { [prefix |-> Some(<<"A">>), suffix |-> None, caseInsensitive |-> FALSE,
       maxAttempts |-> None],
      [prefix |-> Some(<<"A">>), suffix |-> None, caseInsensitive |-> TRUE,
       maxAttempts |-> Some(10000)],
      [prefix |-> None, suffix |-> Some(<<"b">>), caseInsensitive |-> FALSE,
       maxAttempts |-> Some(15000)] }

SessionInputs ==
    { [prefix |-> p.prefix, suffix |-> p.suffix,
       caseInsensitive |-> p.caseInsensitive, maxAttempts |-> p.maxAttempts,
       threads |-> Some(n)] : p \in SessionPatterns, n \in 1..MaxThreads }

InitWith(inputs, hws) ==
    /\ argConfig \in inputs
    /\ hwConcurrency \in hws
    /\ ctor = "new"
    /\ ctorError = ""
    /\ config = NoConfig
    /\ totalAttempts = 0
    /\ startTime = 0
    /\ isRunning = FALSE
    /\ workers = <<>>
    /\ callback = FALSE
    /\ now = 0
    /\ calls = 0
    /\ promise = <<>>
    /\ result = <<>>
    /\ lastProgressUpdate = <<>>
    /\ worker = <<>>
    /\ channel = <<>>
    /\ notifs = <<>>
    /\ successes = <<>>
    /\ startedAt = <<>>
    /\ late = 0
    /\ acted = <<>>
    /\ received = 0
    /\ stopCalls = 0
    /\ probe = NoProbe

WorkerStep ==
    \E w \in Handles :
        \/ WorkerStart(w)
        \/ WorkerLoadError(w)
        \/ SearchMatch(w)
        \/ SearchBatch(w)

Dispatch ==
    \E w \in Handles :
        \/ OnMessage(w)
        \/ OnError(w)
        \/ DiscardAfterTerminate(w)

\* one generate() call on a new instance
Init == InitWith(SessionInputs, {2})
Next ==
    \/ Construct
    \/ Generate
    \/ SetProgressCallback
    \/ WorkerStep
    \/ Dispatch
    \/ Tick
Spec == Init /\ [][Next]_vars

\* the constructor and the start of the search, over all configurations
CfgInit == InitWith(ConfigInputs, {0, 1, 2})
CfgNext ==
    \/ Construct
    \/ Generate
CfgSpec == CfgInit /\ [][CfgNext]_vars

\* generate() called again on the same instance
ReentrantInputs ==
    { [prefix |-> Some(<<"A">>), suffix |-> None, caseInsensitive |-> TRUE,
       maxAttempts |-> None, threads |-> Some(1)] }
ReentrantInit == InitWith(ReentrantInputs, {2})
ReentrantNext ==
    \/ Next
    \/ GenerateAgain
ReentrantSpec == ReentrantInit /\ [][ReentrantNext]_vars

\* one generate() call, and a caller that stops the generator.  The page's
\* event loop dispatches every queued event, and a worker that can run does
FairStopInputs ==
    { [prefix |-> Some(<<"A">>), suffix |-> None, caseInsensitive |-> FALSE,
       maxAttempts |-> Some(10000), threads |-> Some(n)] : n \in 1..MaxThreads }
FairStopInit == InitWith(FairStopInputs, {2})
FairStopNext ==
    \/ Next
    \/ Stop
FairStopSpec ==
    /\ FairStopInit
    /\ [][FairStopNext]_vars
    /\ WF_vars(Construct)
    /\ WF_vars(WorkerStep)
    /\ WF_vars(Dispatch)

\* matchesPattern on its own: a worker built from a validated configuration
\* is asked about one address after another
MaxAddrLen == 3
ProbeAlphabet == {"A", "a", "b"}
ProbeAddresses == UNION { [1..k -> ProbeAlphabet] : k \in 1..MaxAddrLen }
MatchPatterns == { None, Some(<<>>), Some(<<"A">>), Some(<<"a">>), Some(<<"b">>),
                   Some(<<"A","b">>), Some(<<"a","B">>) }
MatchInputs ==
    [prefix : MatchPatterns, suffix : MatchPatterns, caseInsensitive : BOOLEAN,
     maxAttempts : {None}, threads : {Some(1)}]

Probe ==
    /\ ctor = "ok"
    /\ \E address \in ProbeAddresses :
          probe' = [address |-> address,
                    matched |-> matchesPattern(address, config),
                    made |-> TRUE]
    /\ UNCHANGED <<argConfig, hwConcurrency, ctor, ctorError, config, totalAttempts,
                   startTime, isRunning, workers, callback, now, calls, promise,
                   result, lastProgressUpdate, worker, channel, notifs, successes,
                   startedAt, late, acted, received, stopCalls>>

MatchInit == InitWith(MatchInputs, {2})
MatchNext ==
    \/ Construct
    \/ Probe
MatchSpec == MatchInit /\ [][MatchNext]_vars

\* one generate() call, with the same scheduling and no stop
FairSpec ==
    /\ Init
    /\ [][Next]_vars
    /\ WF_vars(Construct)
    /\ WF_vars(WorkerStep)
    /\ WF_vars(Dispatch)

-----------------------------------------------------------------------------
(* Properties *)

Calls == 1..calls
HandlesOf(c) == {w \in Handles : worker[w].call = c}

\* a success message of w is taken off its queue in this step
SuccessDispatched(w) ==
    /\ channel[w] # <<>>
    /\ Head(channel[w]).type = "success"
    /\ channel'[w] = Tail(channel[w])

\* C1: in a session at most one success message is acted upon; generate()
\* resolves with the address and key of the first success message dispatched,
\* and a success message dispatched later changes neither the result nor the
\* state of the session
C1_FirstSuccessWins ==
    /\ [](\A c \in Calls :
            /\ acted[c] <= 1
            /\ promise[c] = "resolved" =>
                  /\ successes[c] # <<>>
                  /\ result[c].publicKey = Head(successes[c]).address
                  /\ result[c].privateKey = fromSecretKey(Head(successes[c]).privateKey))
    /\ [][\A w \in Handles :
            LET c == worker[w].call IN
            /\ (SuccessDispatched(w) /\ successes[c] = <<>> /\ isRunning
                   /\ promise[c] = "pending")
                  => /\ promise'[c] = "resolved"
                     /\ result'[c].publicKey = Head(channel[w]).address
            /\ (SuccessDispatched(w) /\ successes[c] # <<>>)
                  => UNCHANGED <<promise, result, isRunning, workers, worker,
                                 totalAttempts, startTime, notifs, acted>>]_vars
C1_Witness ==
    \E c \in Calls :
        /\ promise[c] = "resolved"
        /\ acted[c] = 1
        /\ Len(successes[c]) >= 2
        /\ Cardinality(HandlesOf(c)) >= 2

\* C2: the step that resolves generate() terminates every spawned worker,
\* empties this.workers and clears isRunning; while generate() is resolved no
\* worker of its session is live
C2_TornDownOnSuccess ==
    /\ [](\A c \in Calls : promise[c] = "resolved" => \A w \in HandlesOf(c) : ~Live(w))
    /\ [][\A c \in Calls :
            (promise[c] = "pending" /\ promise'[c] = "resolved")
               => /\ isRunning' = FALSE
                  /\ workers' = <<>>
                  /\ \A w \in Handles : worker'[w].status = "terminated"]_vars
C2_Witness ==
    \E c \in Calls :
        /\ promise[c] = "resolved"
        /\ Cardinality(HandlesOf(c)) >= 2
        /\ \A w \in HandlesOf(c) : worker[w].status = "terminated"

\* the pattern of a configuration, as the specification states it
Fold(s, caseInsensitive) == IF caseInsensitive THEN toLowerCase(s) ELSE s
SatisfiesPattern(address, cfg) ==
    /\ TruthyStr(cfg.prefix) =>
          startsWith(Fold(address, cfg.caseInsensitive),
                     Fold(Val(cfg.prefix), cfg.caseInsensitive))
    /\ TruthyStr(cfg.suffix) =>
          endsWith(Fold(address, cfg.caseInsensitive),
                   Fold(Val(cfg.suffix), cfg.caseInsensitive))

\* C3: the publicKey generate() resolves with is an address a worker of the
\* session generated, in its original case, and it satisfies the pattern
C3_ResolvedAddressMatches ==
    \A c \in Calls :
        promise[c] = "resolved" =>
            /\ \E w \in HandlesOf(c) : worker[w].address = result[c].publicKey
            /\ SatisfiesPattern(result[c].publicKey, config)
C3_Witness ==
    \E c \in Calls :
        /\ promise[c] = "resolved"
        /\ config.caseInsensitive
        /\ result[c].publicKey = <<"A", "b">>

\* C4: a configuration without a pattern, or with a character outside the
\* base58 alphabet in its prefix or suffix, never gets a worker: the
\* constructor throws
HasBadChar(o) == IsSet(o) /\ \E i \in 1..Len(Val(o)) : Val(o)[i] \notin Base58Chars
C4_BadPatternNeverSearches ==
    ((~IsSet(argConfig.prefix) /\ ~IsSet(argConfig.suffix))
        \/ HasBadChar(argConfig.prefix) \/ HasBadChar(argConfig.suffix))
    => /\ ctor \in {"new", "threw"}
       /\ ctor = "threw" => ctorError \in {ErrNoPattern, ErrPrefix, ErrSuffix}
       /\ Handles = {}
       /\ calls = 0
C4_Witness ==
    /\ ctor = "threw"
    /\ ctorError = ErrPrefix
    /\ argConfig.prefix = Some(<<"A", "0">>)

\* C5: a thread count of 0, or above twice the available parallelism, makes
\* the constructor throw
C5_BadThreadCountThrows ==
    (/\ ctor # "new"
     /\ IsSet(argConfig.threads)
     /\ \/ Val(argConfig.threads) = 0
        \/ Val(argConfig.threads) > 2 * maxThreads(hwConcurrency))
    => /\ ctor = "threw"
       /\ Handles = {}

\* C6: while the session runs, totalAttempts is the sum of the attempts of the
\* progress messages dispatched in it, notified or not
C6_TotalIsSumOfDeltas ==
    isRunning => totalAttempts = received
C6_Witness ==
    /\ isRunning
    /\ callback
    /\ totalAttempts = 2 * reportInterval
    /\ Len(notifs) = 1

\* C7: the attempts reported for a call (its notifications, then its result)
\* never decrease
C7_ReportedAttemptsMonotone ==
    /\ \A i, j \in 1..Len(notifs) :
          (i < j /\ notifs[i].call = notifs[j].call)
             => notifs[i].attempts <= notifs[j].attempts
    /\ \A i \in 1..Len(notifs) :
          promise[notifs[i].call] = "resolved"
             => notifs[i].attempts <= result[notifs[i].call].attempts

\* the time before notification i from which its interval is counted: the
\* previous notification of the same call, or the start of the call
PrevNotifTime(i) ==
    LET earlier == {j \in 1..(i - 1) : notifs[j].call = notifs[i].call} IN
    IF earlier = {} THEN startedAt[notifs[i].call]
    ELSE notifs[CHOOSE j \in earlier : \A k \in earlier : k <= j].at

\* C8: two consecutive notifications of a session, and the start of the
\* session and its first notification, are at least 1000 ms apart
C8_NotificationsThrottled ==
    \A i \in 1..Len(notifs) : notifs[i].at - PrevNotifTime(i) >= progressInterval
C8_Witness ==
    \E i, j \in 1..Len(notifs) : i < j /\ notifs[i].call = notifs[j].call

\* stopWorkers has run since the last generate()
Stopped == calls >= 1 /\ \A w \in Handles : worker[w].status = "terminated"

\* C9: once the session is stopped, a progress message dispatched afterwards
\* changes neither totalAttempts nor the notifications
C9_NoProgressAfterStop ==
    [][(Stopped /\ calls' = calls)
          => (totalAttempts' = totalAttempts /\ notifs' = notifs)]_vars
C9_Witness ==
    /\ Stopped
    /\ late >= 1
    /\ callback
    /\ now - startTime >= progressInterval

\* C10: a stop requested while generate() is pending makes generate() reject
\* with a Cancelled error
C10_StopRejectsCancelled ==
    (calls >= 1 /\ stopCalls >= 1 /\ promise[1] = "pending")
        ~> (calls >= 1 /\ promise[1] = "rejected: Cancelled")

AllExhausted ==
    /\ calls >= 1
    /\ TruthyNum(config.maxAttempts)
    /\ \A w \in Handles : worker[w].status = "closed"

\* C12: once every worker has reached maxAttempts without a match,
\* generate() is eventually rejected
C12_ExhaustionRejects ==
    AllExhausted ~> (calls >= 1 /\ promise[1] \notin {"pending", "resolved"})

\* C13: generate() spawns exactly config.threads workers (the thread count
\* asked for, when one was given), each started with the whole configuration
\* and with the identities 0 .. threads-1, no two alike
C13_SpawnsWorkerCount ==
    calls = 1 =>
        LET n == Val(config.threads) IN
        /\ TruthyNum(argConfig.threads) => n = Val(argConfig.threads)
        /\ Len(workers) = n
        /\ Cardinality(Range(workers)) = n
        /\ Range(workers) = Handles
        /\ {worker[w].workerId : w \in Handles} = 0 .. (n - 1)
        /\ \A v, w \in Handles : worker[v].workerId = worker[w].workerId => v = w
        /\ \A w \in Handles : worker[w].config = config /\ worker[w].call = 1
C13_Witness ==
    /\ calls = 1
    /\ Cardinality(Handles) = 3
    /\ argConfig.threads = Some(3)
    /\ argConfig.suffix # None

\* the error event of w is handed to worker.onerror in this step, while
\* generate() is pending and another worker of the call is alive
ErrorDispatchedWhileOthersAlive(w) ==
    /\ channel[w] # <<>>
    /\ Head(channel[w]).type = "error"
    /\ channel'[w] = Tail(channel[w])
    /\ promise[worker[w].call] = "pending"
    /\ \E v \in HandlesOf(worker[w].call) : v # w /\ Live(v)

\* C14 as stated: the failure of one worker leaves the other workers running
\* and generate() pending
C14_SearchContinuesAfterFailure ==
    [][\A w \in Handles :
          ErrorDispatchedWhileOthersAlive(w)
             => /\ promise'[worker[w].call] = "pending"
                /\ \A v \in Handles \ {w} : worker'[v].status = worker[v].status]_vars

\* C14: the failure of one worker ends the search: the step that handles its
\* error event terminates every worker, empties this.workers, clears isRunning
\* and rejects the pending generate() with that error; the rejection is final,
\* so no later success resolves it, and no worker is alive after it
C14_FailureEndsSearch ==
    /\ [][\A w \in Handles :
            ErrorDispatchedWhileOthersAlive(w)
               => /\ promise'[worker[w].call] = "rejected: ErrorEvent"
                  /\ isRunning' = FALSE
                  /\ workers' = <<>>
                  /\ \A v \in Handles : worker'[v].status = "terminated"]_vars
    /\ [][\A c \in Calls :
            promise[c] = "rejected: ErrorEvent"
               => promise'[c] = promise[c] /\ result'[c] = NoResult]_vars
    /\ [](\A c \in Calls :
            promise[c] = "rejected: ErrorEvent" => \A w \in HandlesOf(c) : ~Live(w))
C14_Witness ==
    /\ calls = 1
    /\ promise[1] = "rejected: ErrorEvent"
    /\ Cardinality(Handles) >= 2
    /\ \E w \in Handles : worker[w].attempts >= reportInterval
    /\ \E w \in Handles : channel[w] # <<>> /\ Head(channel[w]).type = "success"

\* C15: every progress message of a worker carries the batch size, whatever
\* the worker has counted so far, and the deltas a worker has posted add up to
\* its own counter this.attempts
C15_ProgressCarriesDelta ==
    \A w \in Handles :
        /\ worker[w].reported = worker[w].attempts
        /\ \A k \in DOMAIN channel[w] :
              channel[w][k].type = "progress" => channel[w][k].attempts = reportInterval
C15_Witness ==
    \E w \in Handles :
        /\ worker[w].attempts = 2 * reportInterval
        /\ Len(channel[w]) = 2
        /\ \A k \in DOMAIN channel[w] : channel[w][k].type = "progress"

\* the steps of a worker: Idle is "loading", Exhausted is "closed", Cancelled
\* is "terminated" (worker.terminate() can hit a worker in any state, a
\* finished one included); a script that fails to load never searches
WorkerTransitions ==
    { <<"loading", "searching">>, <<"loading", "failed">>,
      <<"searching", "succeeded">>, <<"searching", "closed">> }
    \cup { <<s, "terminated">> : s \in {"loading", "searching", "succeeded", "closed", "failed"} }
Finished(w) == worker[w].status \in {"succeeded", "closed", "terminated", "failed"}

\* C16: a worker moves loading -> searching -> {succeeded, closed, terminated}
\* and never back; it posts at most one success message, which is its last
\* message; a worker that has succeeded, is exhausted or is terminated draws
\* no further candidate and posts nothing more
C16_WorkerStateMachine ==
    /\ [](\A w \in Handles :
            /\ worker[w].successPosts <= 1
            /\ worker[w].status = "succeeded" => worker[w].successPosts = 1
            /\ worker[w].successPosts = 1 => worker[w].lastPost = "success" /\ Finished(w))
    /\ [][\A w \in Handles :
            /\ worker'[w].status # worker[w].status
                  => <<worker[w].status, worker'[w].status>> \in WorkerTransitions
            /\ Finished(w)
                  => /\ Finished(w)'
                     /\ worker'[w].attempts = worker[w].attempts
                     /\ worker'[w].successPosts = worker[w].successPosts
                     /\ worker'[w].lastPost = worker[w].lastPost
                     /\ worker'[w].address = worker[w].address
                     /\ Len(channel'[w]) <= Len(channel[w])]_vars
C16_Witness ==
    \E w \in Handles :
        /\ worker[w].status = "terminated"
        /\ worker[w].successPosts = 1
        /\ worker[w].attempts = reportInterval
        /\ channel[w] = <<>>
        /\ promise[worker[w].call] = "resolved"

\* the coordinator cancels w in this step: stopWorkers() goes through
\* this.workers, terminates each worker and drops the handles
CancelIssued(w) == w \in Range(workers) /\ w \notin Range(workers')

C18_ExhaustsAtCeiling ==
    \A w \in Handles :
        TruthyNum(worker[w].config.maxAttempts)
           => /\ worker[w].attempts <= Val(worker[w].config.maxAttempts)
              /\ worker[w].status = "closed"
                    => worker[w].lastPost \notin {"", "progress", "success"}

\* C19: for every address and every configuration the constructor accepts,
\* matchesPattern is true exactly when the address, folded, starts with the
\* folded prefix (if one is given) and ends with the folded suffix (if one is
\* given), where folding lower-cases when caseInsensitive is set
C19_MatchesReference ==
    probe.made =>
        /\ probe.matched = SatisfiesPattern(probe.address, config)
        /\ probe.address \in ProbeAddresses
C19_Witness ==
    /\ probe.made
    /\ probe.matched
    /\ config.caseInsensitive
    /\ config.prefix = Some(<<"a","B">>)
    /\ config.suffix = Some(<<"A">>)
    /\ probe.address = <<"A","b","a">>

\* C20: the attempts generate() resolves with are the sum of the progress
\* deltas dispatched before the success message that resolved it, a multiple
\* of the batch size; the attempts field of that success message is not in it
C20_ResultAttemptsAreDeltas ==
    \A c \in Calls :
        promise[c] = "resolved"
           => /\ result[c].attempts = received
              /\ result[c].attempts = totalAttempts
              /\ result[c].attempts % reportInterval = 0
C20_Witness ==
    /\ calls = 1
    /\ promise[1] = "resolved"
    /\ result[1].attempts = 0
    /\ Head(successes[1]).attempts = reportInterval \div 2
    /\ SumAttempts(Handles) >= reportInterval

\* the handles the instance holds whose worker is alive
LiveHandles == {w \in Range(workers) : Live(w)}

\* C21: whatever generate() calls are made on an instance, it never holds
\* more live workers than config.threads, and a call that is pending while
\* this.workers is empty was not robbed of its workers by another call
C21_HandlesWithinWorkerCount ==
    /\ ctor = "ok" => Cardinality(LiveHandles) <= Val(config.threads)
    /\ \A c, d \in Calls :
          (c # d /\ promise[c] = "resolved" /\ promise[d] = "pending")
             => \E w \in HandlesOf(d) : worker[w].status # "terminated"

\* the smallest multiple of the batch size that is at least m
CeilBatch(m) == ((m + reportInterval - 1) \div reportInterval) * reportInterval

\* C22: with maxAttempts = M a worker goes on while its counter is below M and
\* stops, without a match, when the counter is the smallest multiple of 10,000
\* that is at least M; the progress message of that last batch is posted
\* before it stops, so the deltas it has posted add up to that multiple
C22_CeilingAtBatchBoundary ==
    \A w \in Handles :
        LET m == worker[w].config.maxAttempts IN
        /\ worker[w].status = "closed" => TruthyNum(m)
        /\ TruthyNum(m) =>
              /\ worker[w].attempts <= CeilBatch(Val(m))
              /\ worker[w].status = "searching" => worker[w].attempts < Val(m)
              /\ worker[w].status = "closed"
                    => /\ worker[w].attempts = CeilBatch(Val(m))
                       /\ worker[w].reported = CeilBatch(Val(m))
                       /\ worker[w].lastPost = "progress"
                       /\ worker[w].successPosts = 0
C22_Witness ==
    \E w \in Handles :
        /\ worker[w].status = "closed"
        /\ worker[w].config.maxAttempts = Some(15000)
        /\ worker[w].attempts = 2 * reportInterval
        /\ totalAttempts = 2 * reportInterval

\* C23: in every notification handed to the callback the elapsed time is at
\* least 1000 ms, and the rate is a finite integer between 0 and the attempts
C23_RateDivisorAtLeastASecond ==
    \A k \in 1..Len(notifs) :
        /\ notifs[k].elapsed >= progressInterval
        /\ notifs[k].rate.kind = "finite"
        /\ notifs[k].rate.value >= 0
        /\ notifs[k].rate.value <= notifs[k].attempts

\* C24: the thread count the constructor stores, which is the number of
\* workers generate() spawns, lies between 1 and twice the available
\* parallelism (4 when it is unknown): an absent or zero count is replaced by
\* the available parallelism, a count given within the range is kept, and the
\* constructor throws for any other count
C24_EffectiveWorkerCountInRange ==
    LET given == argConfig.threads
        par == maxThreads(hwConcurrency)
    IN
    /\ ctor = "ok" =>
          /\ Val(config.threads) >= 1
          /\ Val(config.threads) <= 2 * par
          /\ Val(config.threads) = IF TruthyNum(given) THEN Val(given) ELSE par
    /\ (ctor # "new" /\ TruthyNum(given) /\ (Val(given) < 1 \/ Val(given) > 2 * par))
          => ctor = "threw" /\ Handles = {}
    /\ calls >= 1 => ctor = "ok" /\ Cardinality(Handles) = Val(config.threads)
C24_Witness ==
    /\ calls = 1
    /\ argConfig.threads = Some(0)
    /\ hwConcurrency = 0
    /\ config.threads = Some(DefaultThreads)
    /\ Cardinality(Handles) = DefaultThreads

====
